---- MODULE Spec2Model ----
(***************************************************************************)
(* Model of beetsplug/originquery.py: the OriginQuery plugin.              *)
(*                                                                         *)
(* Python strings are sequences of one-character strings, so that upper(), *)
(* replace(), split(), strip(), isdigit(), int() and str() are computed    *)
(* and not assumed.  A value held by an item field is a record Str(s),     *)
(* Int(n) or Absent (the field was deleted).                               *)
(***************************************************************************)
EXTENDS Integers, Sequences, FiniteSets, TLC

\* ---------------------------------------------------------------- bounds
NumTasks == 2
MaxItems == 2
MaxMatches == 2

\* ---------------------------------------------------------------- values
Str(s) == [k |-> "str", s |-> s, n |-> 0]
Int_(n) == [k |-> "int", s |-> <<>>, n |-> n]
Absent == [k |-> "absent", s |-> <<>>, n |-> 0]

\* Python truthiness of a field value; item.get(f) of a deleted field is None.
Truthy(v) == \/ v.k = "str" /\ v.s # <<>>
             \/ v.k = "int" /\ v.n # 0

LowerCase == <<"a","b","c","d","e","f","g","h","i","j","k","l","m",
               "n","o","p","q","r","s","t","u","v","w","x","y","z">>
UpperCase == <<"A","B","C","D","E","F","G","H","I","J","K","L","M",
               "N","O","P","Q","R","S","T","U","V","W","X","Y","Z">>
Digits == <<"0","1","2","3","4","5","6","7","8","9">>

IndexIn(seq, c) == IF \E i \in 1..Len(seq) : seq[i] = c
                   THEN CHOOSE i \in 1..Len(seq) : seq[i] = c
                   ELSE 0

upper_char(c) == IF IndexIn(LowerCase, c) > 0 THEN UpperCase[IndexIn(LowerCase, c)] ELSE c
lower_char(c) == IF IndexIn(UpperCase, c) > 0 THEN LowerCase[IndexIn(UpperCase, c)] ELSE c
upper(s) == [i \in 1..Len(s) |-> upper_char(s[i])]
lower(s) == [i \in 1..Len(s) |-> lower_char(s[i])]

IsDigitChar(c) == IndexIn(Digits, c) > 0
\* str.isdigit(): non-empty and every character a digit
isdigit(s) == s # <<>> /\ \A i \in 1..Len(s) : IsDigitChar(s[i])

RECURSIVE int(_)
int(s) == IF s = <<>> THEN 0
          ELSE 10 * int(SubSeq(s, 1, Len(s) - 1)) + (IndexIn(Digits, s[Len(s)]) - 1)

RECURSIVE NatToStr(_)
NatToStr(n) == IF n < 10 THEN <<Digits[n + 1]>>
               ELSE NatToStr(n \div 10) \o <<Digits[(n % 10) + 1]>>

\* str(v) as applied to a value of current_metadata
str(v) == IF v.k = "str" THEN v.s
          ELSE IF v.k = "int" THEN NatToStr(v.n)
          ELSE <<"N","o","n","e">>

RemoveChars(s, cs) == SelectSeq(s, LAMBDA c : c \notin cs)

\* re.split("[,/]", value)[0]
FirstSegment(s) ==
    LET cut == {i \in 1..Len(s) : s[i] \in {",", "/"}}
    IN  IF cut = {} THEN s
        ELSE SubSeq(s, 1, (CHOOSE i \in cut : \A j \in cut : i <= j) - 1)

RECURSIVE lstrip(_)
lstrip(s) == IF s # <<>> /\ Head(s) = " " THEN lstrip(Tail(s)) ELSE s
RECURSIVE rstrip(_)
rstrip(s) == IF s # <<>> /\ s[Len(s)] = " " THEN rstrip(SubSeq(s, 1, Len(s) - 1)) ELSE s
strip(s) == rstrip(lstrip(s))

\* ---------------------------------------------------------------- module level
BEETS_TO_LABEL == <<"media", "year", "country", "label", "catalognum", "albumdisambig">>
Fields == {BEETS_TO_LABEL[i] : i \in 1..Len(BEETS_TO_LABEL)}
CONFLICT_FIELDS == {"catalognum", "media"}

\* mutant: the hyphens are kept
normalize_catno_KeepHyphens(catno) == RemoveChars(upper(catno), {" "})

normalize_catno(catno) == RemoveChars(RemoveChars(upper(catno), {" "}), {"-"})

WEB == <<"W","E","B">>
DigitalMedia == <<"D","i","g","i","t","a","l"," ","M","e","d","i","a">>

sanitize_value(key, value) ==
    IF key = "media" /\ value = WEB THEN DigitalMedia
    ELSE IF key = "catalognum" \/ key = "label" THEN strip(FirstSegment(value))
    ELSE IF key = "year" /\ value = <<"0">> THEN <<>>
    ELSE value


\* ---------------------------------------------------------------- inputs
Tasks == 1..NumTasks

CD == <<"C","D">>
ABC1 == <<"A","B","C","-","1">>
EMI == <<"E","M","I">>

JSON == <<"j","s","o","n">>
YAML == <<"y","a","m","l">>
TEXT == <<"t","e","x","t">>
\* config["origin_type"] raising confuse.NotFoundError
NotFound == <<"NotFound">>

OriginFiles == { <<"o",".","J","s","o","n">>, <<"o",".","y","a","m","l">>,
                 <<"o",".","y","m","l">> }

\* (origin_type, origin_file) as configured
TypeConfigs == {<<NotFound, f>> : f \in OriginFiles}
                   \cup { <<TEXT, <<"o",".","J","s","o","n">> >> }

ExtraTagsChoices == { {"media", "catalognum", "year", "label"},
                      {"year", "country"} }

\* A matching occurrence of a field's pattern in an origin document: the field
\* and the raw matched string (capture group / node value).
Occurrences == { <<"catalognum", <<"a","b","c","1"," ","/","x">> >>,
                 <<"catalognum", <<"X","Y","Z","-","2">> >>,
                 <<"media", WEB>>,
                 <<"year", <<"0">> >>,
                 <<"year", <<"1","9","9","9">> >>,
                 <<"year", <<"1","9","x">> >> }

SeqsUpTo(S, n) == UNION {[1..m -> S] : m \in 0..n}

KeyIndex(key) == CHOOSE i \in 1..Len(BEETS_TO_LABEL) : BEETS_TO_LABEL[i] = key

\* The matchers scan the document once per field, so occurrences of different
\* fields never interact: a document is given by its occurrences grouped by
\* field, each field's in document order.
Grouped(occ) ==
    \A i \in 1..(Len(occ) - 1) : KeyIndex(occ[i][1]) <= KeyIndex(occ[i + 1][1])

\* An origin file of a task's base directory: found by the glob or not.
NoFile == [found |-> FALSE, occ |-> <<>>]
Documents == {NoFile} \cup {[found |-> TRUE, occ |-> o] :
                               o \in {q \in SeqsUpTo(Occurrences, MaxMatches) : Grouped(q)}}

MultiDocuments ==
    { NoFile,
      [found |-> TRUE, occ |-> << <<"catalognum", <<"X","Y","Z","-","2">> >> >>],
      [found |-> TRUE, occ |-> << <<"year", <<"1","9","9","9">> >> >>] }

MkItem(media, catalognum) ==
    [f \in Fields |->
        CASE f = "media" -> Str(media)
          [] f = "catalognum" -> Str(catalognum)
          [] f = "year" -> Int_(2001)
          [] f = "label" -> Str(EMI)
          [] OTHER -> Str(<<>>)]

\* a tagged item and an untagged one
ItemChoices == {MkItem(CD, ABC1), MkItem(<<>>, <<>>)}
ItemLists == UNION {[1..m -> ItemChoices] : m \in 1..MaxItems}

\* ---------------------------------------------------------------- state
VARIABLES
    extra_tags,                      \* self.extra_tags
    use_origin_on_conflict,          \* self.use_origin_on_conflict
    preserve_media_with_catalognum,  \* self.preserve_media_with_catalognum
    origin_type,                     \* config["origin_type"] or NotFound
    origin_file,                     \* self.origin_file
    match_fn,                        \* self.match_fn
    files,                           \* the origin document under each task's base
    items,                           \* task.items: the item records of each task
    tasks,                           \* self.tasks
    last                             \* the most recent handler call and what it did

cfgvars == <<extra_tags, use_origin_on_conflict, preserve_media_with_catalognum,
             origin_type, origin_file, match_fn>>
vars == <<extra_tags, use_origin_on_conflict, preserve_media_with_catalognum,
          origin_type, origin_file, match_fn, files, items, tasks, last>>


\* ---------------------------------------------------------------- __init__
\* Path.suffix: from the last dot of the name, "" when there is none or the
\* only dot leads the name.
suffix(name) ==
    LET dots == {i \in 2..Len(name) : name[i] = "."}
    IN  IF dots = {} THEN <<>>
        ELSE SubSeq(name, CHOOSE i \in dots : \A j \in dots : j <= i, Len(name))

\* origin_type as resolved: the configured choice, lowered, or the lowered
\* suffix of origin_file without its dot.
ResolveOriginType(configured, file) ==
    IF configured # NotFound THEN lower(configured)
    ELSE LET sfx == lower(suffix(file))
         IN  IF sfx = <<>> THEN <<>> ELSE Tail(sfx)

SelectMatchFn(otype) ==
    IF otype = JSON THEN "match_json"
    ELSE IF otype = YAML THEN "match_yaml"
    ELSE "match_text"

\* ---------------------------------------------------------------- matchers
\* self.tag_patterns: every field has a pattern, iterated in dictionary order.
tag_patterns == BEETS_TO_LABEL

OccOf(occ, key) == SelectSeq(occ, LAMBDA o : o[1] = key)

\* every line matching the key's pattern yields, in line order
TextYield(occ, key) == OccOf(occ, key)
\* only the first node matching the key's path yields
JsonYield(occ, key) ==
    IF OccOf(occ, key) = <<>> THEN <<>> ELSE <<Head(OccOf(occ, key))>>
\* as JSON, but a falsy first node yields nothing
YamlYield(occ, key) ==
    IF OccOf(occ, key) = <<>> \/ Head(OccOf(occ, key))[2] = <<>> THEN <<>>
    ELSE <<Head(OccOf(occ, key))>>

RECURSIVE match_text(_, _)
match_text(occ, keys) ==
    IF keys = <<>> THEN <<>>
    ELSE TextYield(occ, Head(keys)) \o match_text(occ, Tail(keys))

RECURSIVE match_json(_, _)
match_json(occ, keys) ==
    IF keys = <<>> THEN <<>>
    ELSE JsonYield(occ, Head(keys)) \o match_json(occ, Tail(keys))

RECURSIVE match_yaml(_, _)
match_yaml(occ, keys) ==
    IF keys = <<>> THEN <<>>
    ELSE YamlYield(occ, Head(keys)) \o match_yaml(occ, Tail(keys))

\* self.match_fn(origin_path): the pairs the generator yields
Matches(fn, occ) ==
    IF fn = "match_json" THEN match_json(occ, tag_patterns)
    ELSE IF fn = "match_yaml" THEN match_yaml(occ, tag_patterns)
    ELSE match_text(occ, tag_patterns)

\* ---------------------------------------------------------------- comparator
\* The host's read of an item field; a deleted field reads as the null string.
ItemRead(item, f) == IF item[f] = Absent THEN Str(<<>>) ELSE item[f]

\* beets.autotag.current_metadata: per field the most common value over the
\* items, the earliest on a tie.
plurality(values) ==
    LET count(i) == Cardinality({j \in 1..Len(values) : values[j] = values[i]})
        best == CHOOSE i \in 1..Len(values) :
                    /\ \A j \in 1..Len(values) : count(j) <= count(i)
                    /\ \A j \in 1..(i - 1) : count(j) < count(i)
    IN  values[best]

current_metadata(its) ==
    [f \in Fields |-> plurality([i \in 1..Len(its) |-> ItemRead(its[i], f)])]

InitialCompare(its) ==
    LET likelies == current_metadata(its)
    IN  [tag \in Fields |-> [tagged |-> str(likelies[tag]),
                             active |-> tag \in extra_tags,
                             origin |-> <<>>]]

\* "if tag_compare[key]["origin"]: continue"
AlreadyMatched(entry) == entry.origin # <<>>

\* the comparison of a conflict field's two non-empty values
ValuesDiffer(key, tagged_value, origin_value) ==
    IF key = "catalognum"
    THEN normalize_catno(tagged_value) # normalize_catno(origin_value)
    ELSE tagged_value # origin_value

\* the loop over the matcher's pairs: the comparison entries and the conflict
RECURSIVE Scan(_, _, _)
Scan(tag_compare, conflict, pairs) ==
    IF pairs = <<>> THEN [tag_compare |-> tag_compare, conflict |-> conflict]
    ELSE LET key == Head(pairs)[1]
             value == Head(pairs)[2]
         IN  IF AlreadyMatched(tag_compare[key])
             THEN Scan(tag_compare, conflict, Tail(pairs))
             ELSE LET tagged_value == tag_compare[key].tagged
                      origin_value == sanitize_value(key, value)
                      compared == [tag_compare EXCEPT ![key].origin = origin_value]
                  IN  IF key \notin CONFLICT_FIELDS \/ tagged_value = <<>>
                                                    \/ origin_value = <<>>
                      THEN Scan(compared, conflict, Tail(pairs))
                      ELSE Scan(compared,
                                conflict \/ ValuesDiffer(key, tagged_value, origin_value),
                                Tail(pairs))

\* ---------------------------------------------------------------- updater
\* mutant: the update is applied whatever the conflict
ApplyUpdate_Always(conflict) == TRUE

\* "if not conflict or self.use_origin_on_conflict"
ApplyUpdate(conflict) == ~conflict \/ use_origin_on_conflict

\* the value assigned to item[tag]
WrittenValue(tag, origin_value) ==
    IF tag = "year" /\ origin_value # <<>>
    THEN IF isdigit(origin_value) THEN Int_(int(origin_value)) ELSE Str(<<>>)
    ELSE Str(origin_value)

\* mutant: a field without an origin value keeps its tagged value
AssignTags_SkipEmpty(item, tag_compare) ==
    [f \in Fields |-> IF f \in extra_tags /\ tag_compare[f].origin # <<>>
                      THEN WrittenValue(f, tag_compare[f].origin)
                      ELSE item[f]]

\* the item after "item[tag] = origin_value" for every tag of extra_tags
AssignTags(item, tag_compare) ==
    [f \in Fields |-> IF f \in extra_tags
                      THEN WrittenValue(f, tag_compare[f].origin)
                      ELSE item[f]]

\* mutant: the option is not consulted
RemoveMedia_IgnoreOption(item) ==
    Truthy(item["media"]) /\ Truthy(item["catalognum"])

\* the media removal workaround's condition, read after the assignments
RemoveMedia(item) ==
    /\ ~preserve_media_with_catalognum
    /\ Truthy(item["media"])
    /\ Truthy(item["catalognum"])

UpdateItem(item, tag_compare) ==
    LET assigned == AssignTags(item, tag_compare)
    IN  IF RemoveMedia(assigned) THEN [assigned EXCEPT !["media"] = Absent]
        ELSE assigned


\* ---------------------------------------------------------------- task state
\* mutant: one entry shared by all tasks
TaskKey_Shared(t) == 1

\* self.tasks is keyed by the task object
TaskKey(t) == t

\* no entry of self.tasks
NoInfo == [present |-> FALSE, origin_path |-> <<>>, missing_origin |-> FALSE,
           tag_compare |-> <<>>, conflict |-> FALSE]

\* mutant: missing_origin is not recorded
MissingInfo_NoFlag(t) ==
    [present |-> TRUE, origin_path |-> <<t, origin_file>>, missing_origin |-> FALSE,
     tag_compare |-> <<>>, conflict |-> FALSE]

\* task_info of a task whose glob matched nothing
MissingInfo(t) ==
    [present |-> TRUE, origin_path |-> <<t, origin_file>>, missing_origin |-> TRUE,
     tag_compare |-> <<>>, conflict |-> FALSE]

\* tag_compare and conflict as the matcher loop leaves them
Compared(t) == Scan(InitialCompare(items[t]), FALSE, Matches(match_fn, files[t].occ))

\* the items of the task as the update loop leaves them
UpdatedItems(its, c) ==
    IF ApplyUpdate(c.conflict)
    THEN [i \in 1..Len(its) |-> UpdateItem(its[i], c.tag_compare)]
    ELSE its

\* item indices whose media field is deleted by the update loop
Deleted(its, c) ==
    IF ApplyUpdate(c.conflict)
    THEN {i \in 1..Len(its) : RemoveMedia(AssignTags(its[i], c.tag_compare))}
    ELSE {}

\* the assignments item[tag] = value made by the update loop
Assigned(its, c) ==
    IF ApplyUpdate(c.conflict)
    THEN {<<i, tag, WrittenValue(tag, c.tag_compare[tag].origin)>> :
            i \in 1..Len(its), tag \in extra_tags}
    ELSE {}

FoundInfo(t, c, dels) ==
    [present |-> TRUE, origin_path |-> <<t, origin_file>>, missing_origin |-> FALSE,
     tag_compare |-> IF dels # {}
                     THEN [c.tag_compare EXCEPT !["media"].active = FALSE]
                     ELSE c.tag_compare,
     conflict |-> c.conflict]

NoCall == [op |-> "none", task |-> 0, before |-> <<>>, prev |-> NoInfo,
           sets |-> {}, dels |-> {}, out |-> <<>>]

\* os.path.commonpath(task.paths) raises ValueError for a task without items
import_task_start(t) ==
    /\ items[t] # <<>>
    /\ IF ~files[t].found
       THEN /\ tasks' = [tasks EXCEPT ![TaskKey(t)] = MissingInfo(t)]
            /\ items' = items
            /\ last' = [op |-> "import_task_start", task |-> t, before |-> items[t],
                        prev |-> tasks[TaskKey(t)], sets |-> {}, dels |-> {},
                        out |-> <<>>]
       ELSE LET c == Compared(t)
                dels == Deleted(items[t], c)
            IN  /\ tasks' = [tasks EXCEPT ![TaskKey(t)] = FoundInfo(t, c, dels)]
                /\ items' = [items EXCEPT ![t] = UpdatedItems(items[t], c)]
                /\ last' = [op |-> "import_task_start", task |-> t, before |-> items[t],
                            prev |-> tasks[TaskKey(t)], sets |-> Assigned(items[t], c),
                            dels |-> dels, out |-> <<>>]
    /\ UNCHANGED <<cfgvars, files>>

\* ---------------------------------------------------------------- reporter
Max(S) == CHOOSE x \in S : \A y \in S : y <= x
ljust(s, w) == s \o [i \in 1..(w - Len(s)) |-> " "]

LabelLen == [media |-> 5, year |-> 12, country |-> 7, label |-> 12,
             catalognum |-> 14, albumdisambig |-> 7]
HeaderLen == <<5, 11, 11>>

\* mutant: the tagged column also when there is no conflict
UseTagged_NoConflict(conflict) == ~conflict \/ ~use_origin_on_conflict

\* "use_tagged = conflict and not self.use_origin_on_conflict"
UseTagged(conflict) == conflict /\ ~use_origin_on_conflict

Cell(text, active) == [text |-> text, highlight |-> active]

RowShown(v) == ~(v.tagged = <<>> /\ v.origin = <<>>)

print_tags(tag_compare, use_tagged) ==
    LET w_key == Max({HeaderLen[1]} \cup {LabelLen[k] : k \in Fields})
        w_tagged == Max({HeaderLen[2]} \cup {Len(tag_compare[k].tagged) : k \in Fields})
        w_origin == Max({HeaderLen[3]} \cup {Len(tag_compare[k].origin) : k \in Fields})
        border(kind) == [kind |-> kind, field |-> "", w |-> <<w_key, w_tagged, w_origin>>,
                         tagged |-> Cell(<<>>, FALSE), origin |-> Cell(<<>>, FALSE)]
        header == [kind |-> "header", field |-> "", w |-> <<w_key, w_tagged, w_origin>>,
                   tagged |-> Cell(<<>>, use_tagged), origin |-> Cell(<<>>, ~use_tagged)]
        row(k) == [kind |-> "row", field |-> k, w |-> <<w_key, w_tagged, w_origin>>,
                   tagged |-> Cell(ljust(tag_compare[k].tagged, w_tagged),
                                   use_tagged /\ tag_compare[k].active),
                   origin |-> Cell(ljust(tag_compare[k].origin, w_origin),
                                   ~use_tagged /\ tag_compare[k].active)]
        shown == SelectSeq(BEETS_TO_LABEL, LAMBDA k : RowShown(tag_compare[k]))
    IN  <<border("top"), header, border("separator")>>
            \o [i \in 1..Len(shown) |-> row(shown[i])]
            \o <<border("bottom")>>

Message(kind) == [kind |-> kind, field |-> "", w |-> <<0, 0, 0>>,
                  tagged |-> Cell(<<>>, FALSE), origin |-> Cell(<<>>, FALSE)]

\* the log lines of before_choose_candidate for a task_info
Report(task_info) ==
    IF task_info.missing_origin THEN <<Message("warn_no_origin_file")>>
    ELSE <<Message("info_using_origin_file")>>
            \o print_tags(task_info.tag_compare, UseTagged(task_info.conflict))
            \o (IF task_info.conflict THEN <<Message("warn_conflict")>> ELSE <<>>)

\* self.tasks[task] raises KeyError before the task's import_task_start
before_choose_candidate(t) ==
    /\ tasks[TaskKey(t)].present
    /\ last' = [op |-> "before_choose_candidate", task |-> t, before |-> <<>>,
                prev |-> NoInfo, sets |-> {}, dels |-> {},
                out |-> Report(tasks[TaskKey(t)])]
    /\ UNCHANGED <<cfgvars, files, items, tasks>>

\* ---------------------------------------------------------------- specification
InitConfig ==
    /\ extra_tags \in ExtraTagsChoices
    /\ use_origin_on_conflict \in BOOLEAN
    /\ preserve_media_with_catalognum \in BOOLEAN
    /\ \E c \in TypeConfigs :
          /\ origin_type = c[1]
          /\ origin_file = c[2]
          /\ match_fn = SelectMatchFn(ResolveOriginType(c[1], c[2]))
    /\ tasks = [t \in Tasks |-> NoInfo]
    /\ last = NoCall

\* an import session of one album: task 1, with any of the bounded inputs
Init ==
    /\ InitConfig
    /\ \E d \in Documents, l \in ItemLists :
          /\ files = [t \in Tasks |-> IF t = 1 THEN d ELSE NoFile]
          /\ items = [t \in Tasks |-> IF t = 1 THEN l ELSE <<>>]

\* an import session of NumTasks albums, each with one of a few inputs
InitMulti ==
    /\ InitConfig
    /\ files \in [Tasks -> MultiDocuments]
    /\ items \in [Tasks -> {<<MkItem(CD, ABC1)>>}]

Next ==
    \E t \in Tasks :
        \/ import_task_start(t)
        \/ before_choose_candidate(t)

Spec == Init /\ [][Next]_vars

SpecMulti == InitMulti /\ [][Next]_vars

\* ---------------------------------------------------------------- claims
\* The most recent call was import_task_start / before_choose_candidate.
AfterStart == last.op = "import_task_start"
AfterReport == last.op = "before_choose_candidate"
\* The task of the most recent call, its entry and whether its glob matched.
LastInfo == tasks[last.task]
LastFound == files[last.task].found
\* The most recent import_task_start reached the update decision with "apply".
LastApplied == AfterStart /\ LastFound /\ (~LastInfo.conflict \/ use_origin_on_conflict)
LastItems == items[last.task]

\* C1: when import_task_start ends with conflict and use_origin_on_conflict is
\* off, every item of the task is as it was before the call: nothing was
\* assigned and nothing deleted; and an import_task_start that reaches the
\* decision assigns every extra_tags field of every item exactly when there is
\* no conflict or use_origin_on_conflict is on.
C1_UpdateGating ==
    AfterStart /\ LastFound =>
        /\ (LastInfo.conflict /\ ~use_origin_on_conflict) =>
              /\ LastItems = last.before
              /\ last.sets = {}
              /\ last.dels = {}
        /\ (~LastInfo.conflict \/ use_origin_on_conflict) <=>
              (\A i \in 1..Len(LastItems) : \A f \in extra_tags :
                  \E a \in last.sets : a[1] = i /\ a[2] = f)

\* C1 witness: a conflict with use_origin_on_conflict off, while a field of
\* extra_tags that does not conflict has an origin value and an item meets the
\* media removal condition.
C1_Witness ==
    /\ AfterStart /\ LastFound
    /\ LastInfo.conflict /\ ~use_origin_on_conflict
    /\ ~preserve_media_with_catalognum
    /\ "year" \in extra_tags
    /\ LastInfo.tag_compare["year"].origin = <<"1","9","9","9">>
    /\ \E i \in 1..Len(LastItems) :
          Truthy(LastItems[i]["media"]) /\ Truthy(LastItems[i]["catalognum"])

\* the comparison form of a conflict field's value, as the claim states it
ComparedForm(f, v) ==
    IF f = "catalognum" THEN SelectSeq(upper(v), LAMBDA c : c # " " /\ c # "-") ELSE v

\* C2: a task's conflict is true only if catalognum or media has a non-empty
\* stored tagged value and a non-empty stored origin value that differ in their
\* comparison form; tagged catalognum ABC-1 with origin abc1 is no conflict of
\* catalognum, with origin XYZ-2 it is a conflict.
C2_ConflictInvariant ==
    \A t \in Tasks : tasks[t].present /\ ~tasks[t].missing_origin =>
        LET tc == tasks[t].tag_compare
            differ(f) == /\ tc[f].tagged # <<>>
                         /\ tc[f].origin # <<>>
                         /\ ComparedForm(f, tc[f].tagged) # ComparedForm(f, tc[f].origin)
        IN  /\ tasks[t].conflict => \E f \in CONFLICT_FIELDS : differ(f)
            /\ (/\ tc["catalognum"].tagged = ABC1
                /\ tc["catalognum"].origin = <<"a","b","c","1">>
                /\ ~differ("media")) => ~tasks[t].conflict
            /\ (/\ tc["catalognum"].tagged = ABC1
                /\ tc["catalognum"].origin = <<"X","Y","Z","-","2">>) => tasks[t].conflict

\* C2 witness: tagged ABC-1 against origin XYZ-2 after import_task_start.
C2_Witness ==
    /\ AfterStart /\ LastFound
    /\ LastInfo.tag_compare["catalognum"].tagged = ABC1
    /\ LastInfo.tag_compare["catalognum"].origin = <<"X","Y","Z","-","2">>
    /\ LastInfo.conflict

\* C3: after import_task_start the origin value of every field whose pattern
\* occurs in the document is the sanitized value of the first occurrence,
\* whatever that value is.
C3_FirstMatchWins ==
    AfterStart /\ LastFound =>
        \A key \in Fields :
            LET occ == OccOf(files[last.task].occ, key)
            IN  occ # <<>> =>
                    LastInfo.tag_compare[key].origin = sanitize_value(key, Head(occ)[2])


\* C3 case: a text document whose first occurrence of year sanitizes to the
\* empty string and is followed by a second occurrence.
C3_Case ==
    /\ AfterStart /\ LastFound /\ match_fn = "match_text"
    /\ Len(OccOf(files[last.task].occ, "year")) = 2
    /\ Head(OccOf(files[last.task].occ, "year"))[2] = <<"0">>

\* The value of item i's field f once the call's assignments are made, before
\* the media removal step: the assigned value, or the value the call found.
AfterAssign(i, f) ==
    IF \E a \in last.sets : a[1] = i /\ a[2] = f
    THEN (CHOOSE a \in last.sets : a[1] = i /\ a[2] = f)[3]
    ELSE last.before[i][f]

MediaRemoved(i) == LastItems[i]["media"] = Absent /\ i \in last.dels

\* C4 as stated: when the update is applied with
\* preserve_media_with_catalognum off, every item whose media and catalognum
\* were non-empty when import_task_start began has its media removed and the
\* media entry is inactive; with the option on no media is deleted and the
\* media entry's active flag is untouched.
C4_Original ==
    LastApplied =>
        /\ ~preserve_media_with_catalognum =>
              \A i \in 1..Len(LastItems) :
                  (Truthy(last.before[i]["media"]) /\ Truthy(last.before[i]["catalognum"]))
                      => (MediaRemoved(i) /\ ~LastInfo.tag_compare["media"].active)
        /\ preserve_media_with_catalognum =>
              /\ last.dels = {}
              /\ \A i \in 1..Len(LastItems) : LastItems[i]["media"] # Absent
              /\ LastInfo.tag_compare["media"].active = ("media" \in extra_tags)

\* C4 amended: the condition is read after the assignments of the origin
\* values: with preserve_media_with_catalognum off an item's media is removed
\* exactly when its media and catalognum are non-empty once the extra_tags
\* fields hold their origin values, and the media entry is inactive when some
\* item's media was removed; with the option on no media is deleted and the
\* media entry's active flag is untouched.
C4_MediaRemoval ==
    LastApplied =>
        /\ ~preserve_media_with_catalognum =>
              /\ \A i \in 1..Len(LastItems) :
                    (Truthy(AfterAssign(i, "media")) /\ Truthy(AfterAssign(i, "catalognum")))
                        <=> MediaRemoved(i)
              /\ (\E i \in 1..Len(LastItems) : MediaRemoved(i))
                    => ~LastInfo.tag_compare["media"].active
        /\ preserve_media_with_catalognum =>
              /\ last.dels = {}
              /\ \A i \in 1..Len(LastItems) : LastItems[i]["media"] # Absent
              /\ LastInfo.tag_compare["media"].active = ("media" \in extra_tags)

\* C4 witness: the update is applied with the option off to an item whose
\* media and catalognum were non-empty; its media is removed and the media
\* entry is inactive, while another item of the task keeps its media.
C4_Witness ==
    /\ LastApplied /\ ~preserve_media_with_catalognum
    /\ \E i \in 1..Len(LastItems) :
          /\ Truthy(last.before[i]["media"]) /\ Truthy(last.before[i]["catalognum"])
          /\ MediaRemoved(i)
    /\ \E i \in 1..Len(LastItems) : ~MediaRemoved(i)
    /\ ~LastInfo.tag_compare["media"].active

\* C5: the entry of a task in self.tasks and the task's items change only in
\* that task's own import_task_start, and before_choose_candidate of a task
\* reports that task's own entry and nothing else.
C5_TaskIsolation ==
    [][ /\ \A t \in Tasks :
              (tasks'[t] # tasks[t] \/ items'[t] # items[t])
                  => (last'.op = "import_task_start" /\ last'.task = t)
        /\ last'.op = "before_choose_candidate"
              => (tasks' = tasks /\ last'.out = Report(tasks[last'.task])) ]_vars

\* C5 witness: task 2 reports after both tasks started, and the two entries
\* differ.
C5_Witness ==
    /\ AfterReport /\ last.task = 2
    /\ tasks[1].present /\ tasks[2].present
    /\ tasks[1].missing_origin /\ tasks[2].conflict


\* the rows of the table of the most recent before_choose_candidate
ReportRows == {i \in 1..Len(last.out) : last.out[i].kind = "row"}
RowActive(i) == LastInfo.tag_compare[last.out[i].field].active

\* C6 as stated: every displayed row has exactly one emphasized cell; the
\* tagged cell is emphasized when the row is active and there is no conflict
\* or a conflict with use_origin_on_conflict off; the origin cell when the row
\* is active and there is a conflict with use_origin_on_conflict on.
C6_Original ==
    AfterReport =>
        \A i \in ReportRows :
            /\ last.out[i].tagged.highlight # last.out[i].origin.highlight
            /\ (RowActive(i) /\ (~LastInfo.conflict \/ ~use_origin_on_conflict))
                  => last.out[i].tagged.highlight
            /\ (RowActive(i) /\ LastInfo.conflict /\ use_origin_on_conflict)
                  => last.out[i].origin.highlight

\* C6 amended: a displayed row has exactly one emphasized cell when it is
\* active and none when it is not; the tagged cell is emphasized exactly when
\* the row is active and there is a conflict with use_origin_on_conflict off;
\* the origin cell exactly when the row is active and there is no conflict or
\* use_origin_on_conflict is on.
C6_ReportEmphasis ==
    AfterReport =>
        \A i \in ReportRows :
            /\ last.out[i].tagged.highlight <=>
                  (RowActive(i) /\ LastInfo.conflict /\ ~use_origin_on_conflict)
            /\ last.out[i].origin.highlight <=>
                  (RowActive(i) /\ (~LastInfo.conflict \/ use_origin_on_conflict))
            /\ RowActive(i) <=>
                  (last.out[i].tagged.highlight # last.out[i].origin.highlight)
            /\ ~(last.out[i].tagged.highlight /\ last.out[i].origin.highlight)

\* C6 witness: a table with an active row and no conflict, whose origin cell is
\* the emphasized one, and a row that is not active.
C6_Witness ==
    /\ AfterReport /\ ~LastInfo.conflict
    /\ \E i \in ReportRows :
          RowActive(i) /\ last.out[i].origin.highlight /\ ~last.out[i].tagged.highlight
    /\ \E i \in ReportRows : ~RowActive(i)

\* C7: a configured origin_type selects the matcher; otherwise the extension
\* of origin_file does: .json the JSON matcher, .yaml and .yml the YAML
\* matcher, any other the text matcher.
C7_TypeResolution ==
    LET ext == lower(suffix(origin_file))
        dot(e) == <<".">> \o e
    IN  /\ origin_type # NotFound =>
              match_fn = (IF lower(origin_type) = JSON THEN "match_json"
                          ELSE IF lower(origin_type) = YAML THEN "match_yaml"
                          ELSE "match_text")
        /\ origin_type = NotFound =>
              match_fn = (IF ext = dot(JSON) THEN "match_json"
                          ELSE IF ext \in {dot(YAML), dot(<<"y","m","l">>)} THEN "match_yaml"
                          ELSE "match_text")

\* C8: when the glob matches no file, import_task_start records the expected
\* path with missing_origin, no comparison entry and no conflict, and leaves
\* every item as it was; before_choose_candidate then logs the one warning.
C8_MissingOrigin ==
    /\ (AfterStart /\ ~LastFound) =>
          /\ LastInfo.present /\ LastInfo.missing_origin
          /\ LastInfo.origin_path = <<last.task, origin_file>>
          /\ DOMAIN LastInfo.tag_compare = {}
          /\ ~LastInfo.conflict
          /\ LastItems = last.before
          /\ last.sets = {} /\ last.dels = {}
    /\ (AfterReport /\ ~LastFound) =>
          /\ Len(last.out) = 1
          /\ last.out[1].kind = "warn_no_origin_file"

\* C8 witness: the report of a task whose origin file is missing.
C8_Witness ==
    /\ AfterReport /\ ~LastFound
    /\ LastInfo.missing_origin
    /\ Len(last.out) = 1

\* the most recent import_task_start was not the task's first
Restarted == AfterStart /\ last.prev.present

\* C9 as stated: a second import_task_start of a task, reading the items as
\* the first left them, ends with the tag_compare entries and the conflict
\* flag of the first.
C9_Original ==
    Restarted =>
        /\ LastInfo.tag_compare = last.prev.tag_compare
        /\ LastInfo.conflict = last.prev.conflict

\* C9 amended: the second import_task_start ends with the origin values of the
\* first; it ends with the same tagged values, active flags and conflict flag
\* when the first applied no update (it found no origin file, or ended with a
\* conflict while use_origin_on_conflict is off).
C9_Idempotence ==
    Restarted =>
        /\ LastInfo.missing_origin = last.prev.missing_origin
        /\ ~LastInfo.missing_origin =>
              \A f \in Fields :
                  LastInfo.tag_compare[f].origin = last.prev.tag_compare[f].origin
        /\ (last.prev.missing_origin \/ (last.prev.conflict /\ ~use_origin_on_conflict)) =>
              /\ LastInfo.tag_compare = last.prev.tag_compare
              /\ LastInfo.conflict = last.prev.conflict
              /\ LastItems = last.before

\* C9 witness: a second import_task_start after a first that ended with a
\* conflict and applied nothing.
C9_Witness ==
    /\ Restarted
    /\ last.prev.conflict /\ ~use_origin_on_conflict
    /\ LastInfo.conflict

\* the value the claim says is assigned for an origin value
ClaimedValue(f, origin_value) ==
    IF f = "year" /\ origin_value # <<>>
    THEN IF \A i \in 1..Len(origin_value) : IndexIn(Digits, origin_value[i]) > 0
         THEN Int_(int(origin_value))
         ELSE Str(<<>>)
    ELSE Str(origin_value)

\* C10: when the update is applied, every field of extra_tags of every item is
\* assigned the stored origin value, the empty string when nothing matched (a
\* year as an integer when all digits, else empty), and no other field is
\* assigned; only the media removal touches a field afterwards.
C10_AssignsOrigin ==
    LastApplied =>
        /\ last.sets = {<<i, f, ClaimedValue(f, LastInfo.tag_compare[f].origin)>> :
                          i \in 1..Len(LastItems), f \in extra_tags}
        /\ \A i \in 1..Len(LastItems) : \A f \in Fields :
              LastItems[i][f] =
                  IF f = "media" /\ i \in last.dels THEN Absent
                  ELSE IF f \in extra_tags
                       THEN ClaimedValue(f, LastInfo.tag_compare[f].origin)
                       ELSE last.before[i][f]

\* C10 witness: label is in extra_tags and has no origin value: the item's
\* label EMI is replaced by the empty string, and the year 1999 is written as
\* an integer.
C10_Witness ==
    /\ LastApplied
    /\ "label" \in extra_tags
    /\ LastInfo.tag_compare["label"].origin = <<>>
    /\ last.before[1]["label"] = Str(EMI)
    /\ LastItems[1]["label"] = Str(<<>>)
    /\ LastItems[1]["year"] = Int_(1999)

====
